---- MODULE Spec2Model ----
(***************************************************************************)
(* Model of Spotify_API.ipynb: the request batching routine partition_dict *)
(* (cell In[14]) that splits the keys of a dictionary into slices for the  *)
(* audio-features endpoint, and the cells that call the API: artist search *)
(* (In[4]), artist albums (In[6]), album clean-up (In[8]), album tracks    *)
(* (In[11]) and audio features (In[15]).                                   *)
(***************************************************************************)
EXTENDS Integers, Sequences, FiniteSets, TLC

(* ---------------------------- bounds ----------------------------------- *)
\* largest number of keys in the dictionary handed to partition_dict
MaxN == 334
\* increments values -MaxNegIncrement .. MaxSmallIncrement are tried
MaxNegIncrement == 2
MaxSmallIncrement == 3
\* increments values within IncrementSpread of the slice literal are tried
IncrementSpread == 2
\* artists whose albums are in album_ids when the clean-up cell runs
MaxCleanupArtists == 4
\* titles of album_deletions that occur in album_ids
MaxDeletionTitles == 2
\* artists in artist_ids when the album cell runs
MaxAlbumArtists == 2
\* album objects in one response of the artist's albums endpoint
MaxAlbumObjects == 3
\* albums in album_ids when the album-tracks cell runs
MaxTrackAlbums == 2
\* track objects in one response of the album's tracks endpoint
MaxTrackObjects == 2
\* full batches of tracks the audio-features cell is entered with
MaxLookupBatches == 2

(* ------------------------ program constants ---------------------------- *)
\* the literal in the slice's upper bound: my_list[i*increments:(100+(i*increments))]
SliceLiteral == 100
\* the increments the audio-features cell passes: partition_dict(tracks,100)
CallSiteIncrements == 100
\* the status the cells take as success: if status == 200
StatusOK == 200

(* ----------------------------- inputs ---------------------------------- *)
\* key orders of the dictionary: a dict keeps insertion order, which is the
\* order of the upstream lookups, not of the identifiers themselves
KeyOrders == {"asc", "desc", "rot"}

\* the n unique keys of my_dict, in insertion order
DictKeys(n, order) ==
    [i \in 1..n |-> CASE order = "asc"  -> i
                      [] order = "desc" -> n + 1 - i
                      [] order = "rot"  -> (i % n) + 1]

\* the values passed as increments
IncrementValues ==
    ((0 - MaxNegIncrement)..MaxSmallIncrement)
    \cup ((SliceLiteral - IncrementSpread)..(SliceLiteral + IncrementSpread))
    \cup {SliceLiteral \div 2, SliceLiteral + (SliceLiteral \div 2)}

(* ----------------------- Python primitives ----------------------------- *)
\* one bound of a slice: a negative index counts from the end, and the
\* result is clamped to 0..len
PySliceIndex(idx, len) ==
    LET shifted == IF idx < 0 THEN idx + len ELSE idx
    IN  IF shifted < 0 THEN 0 ELSE IF shifted > len THEN len ELSE shifted

\* the same slice taken one position late at its start
PySliceLateStart(s, start, stop) ==
    SubSeq(s, PySliceIndex(start, Len(s)) + 2, PySliceIndex(stop, Len(s)))

\* s[start:stop] (0-based, stop excluded)
PySlice(s, start, stop) ==
    SubSeq(s, PySliceIndex(start, Len(s)) + 1, PySliceIndex(stop, Len(s)))

\* math.ceil(size/increments) for increments # 0: true division, rounded up.
\* The quotient of two integers of this size is exact enough in a double for
\* the ceiling to be the mathematical one.
\* the same with the quotient rounded down, as size//increments would
PyCeilDivFloor(size, increments) ==
    IF increments > 0
    THEN size \div increments
    ELSE 0 - (size \div (0 - increments))

PyCeilDiv(size, increments) ==
    IF increments > 0
    THEN (size \div increments) + (IF size % increments # 0 THEN 1 ELSE 0)
    ELSE 0 - (size \div (0 - increments))

(* ------------------------- Python dictionaries ------------------------- *)
\* a dict is the sequence of its <<key, value>> entries in insertion order

\* list(d.keys())
PyDictKeys(d) == [i \in 1..Len(d) |-> d[i][1]]

\* k in d
PyDictHas(d, k) == \E i \in 1..Len(d) : d[i][1] = k

\* the value items assigns last to key k
LastAssigned(items, k) ==
    LET j == CHOOSE j \in 1..Len(items) :
                 /\ items[j][1] = k
                 /\ \A h \in (j + 1)..Len(items) : items[h][1] # k
    IN  items[j][2]

\* the assignments of all items but the last
PyDictSetAllButLast(d, items) ==
    LET n == IF Len(items) = 0 THEN 0 ELSE Len(items) - 1
    IN  [i \in 1..Len(d) |->
            IF \E j \in 1..n : items[j][1] = d[i][1]
            THEN <<d[i][1], LastAssigned(SubSeq(items, 1, n), d[i][1])>>
            ELSE d[i]]
        \o SelectSeq(SubSeq(items, 1, n), LAMBDA e : ~PyDictHas(d, e[1]))

\* for (k, v) in items: d[k] = v
\* a key already in d keeps its place and takes the value assigned last; a
\* new key is appended where it is first assigned
PyDictSetAll(d, items) ==
    LET firsts == {j \in 1..Len(items) :
                      /\ ~PyDictHas(d, items[j][1])
                      /\ \A h \in 1..(j - 1) : items[h][1] # items[j][1]}
        idx    == SelectSeq([j \in 1..Len(items) |-> j], LAMBDA j : j \in firsts)
    IN  [i \in 1..Len(d) |->
            IF \E j \in 1..Len(items) : items[j][1] = d[i][1]
            THEN <<d[i][1], LastAssigned(items, d[i][1])>>
            ELSE d[i]]
        \o [j \in 1..Len(idx) |->
               <<items[idx[j]][1], LastAssigned(items, items[idx[j]][1])>>]

(* --------------------------- partition_dict ---------------------------- *)
\* the slice with its upper bound one short
PartitionSliceShort(my_list, increments, i) ==
    PySlice(my_list, i * increments, (SliceLiteral - 1) + (i * increments))

\* the body of the loop: the slice appended for index i
PartitionSlice(my_list, increments, i) ==
    PySlice(my_list, i * increments, SliceLiteral + (i * increments))

\* range(0,parts): empty when parts <= 0
PyRange0(parts) == IF parts > 0 THEN 0..(parts - 1) ELSE {}

\* partitions = []; for i in range(0,parts): partitions.append(...)
\* entry i + 1 of the list is the slice appended in iteration i
PartitionLoop(my_list, increments, parts) ==
    [k \in {i + 1 : i \in PyRange0(parts)} |-> PartitionSlice(my_list, increments, k - 1)]

NoOutcome == [kind |-> "none", error |-> "", partitions |-> << >>]

\* partition_dict(my_dict, increments): what the call returns or raises
partition_dict(keys, inc) ==
    LET my_list == keys
        size    == Len(my_list)
    IN  IF inc = 0
        THEN [kind |-> "raise", error |-> "ZeroDivisionError", partitions |-> << >>]
        ELSE [kind |-> "return", error |-> "",
              partitions |-> PartitionLoop(my_list, inc, PyCeilDiv(size, inc))]

(* ------------------------------ state ----------------------------------- *)
VARIABLES
    my_dict,        \* the keys of the dictionary argument, in insertion order
    increments,     \* the increments argument
    pc,             \* "ready" before the call, "returned" after it
    outcome,        \* what the call produced
    cell,           \* the notebook cell that is running, "none" outside the notebook
    step,           \* position in the cell's loop: "next", "waiting", "handling"
    loop_index,     \* number of items of the cell's loop already handled
    response,       \* the response requests.get has returned
    request_log,    \* the requests issued so far, in order
    printed,        \* the lines printed so far, in order
    artist_ids,     \* dict: artist id -> artist name
    album_ids,      \* dict: album id -> (album name, artist name)
    tracks,         \* dict: track id -> (name, album id)
    track_features  \* dict: track id -> audio-feature object

callVars == <<my_dict, increments, pc, outcome>>
loopVars == <<cell, step, loop_index, response, request_log, printed>>
dataVars == <<artist_ids, album_ids, tracks, track_features>>
vars == <<my_dict, increments, pc, outcome, cell, step, loop_index, response,
          request_log, printed, artist_ids, album_ids, tracks, track_features>>

NoResponse == [status |-> 0, body |-> << >>]

\* no cell is running and the notebook's globals are empty
NotebookIdle ==
    /\ cell = "none"
    /\ step = "next"
    /\ loop_index = 0
    /\ response = NoResponse
    /\ request_log = << >>
    /\ printed = << >>
    /\ artist_ids = << >>
    /\ album_ids = << >>
    /\ tracks = << >>
    /\ track_features = << >>

Init ==
    /\ \E n \in 0..MaxN : \E order \in KeyOrders : my_dict = DictKeys(n, order)
    /\ increments \in IncrementValues
    /\ pc = "ready"
    /\ outcome = NoOutcome
    /\ NotebookIdle

\* a call that empties the dictionary it was given, as popitem() would
CallDraining ==
    /\ pc = "ready"
    /\ outcome' = partition_dict(my_dict, increments)
    /\ pc' = "returned"
    /\ my_dict' = << >>
    /\ UNCHANGED increments
    /\ UNCHANGED <<loopVars, dataVars>>

\* one call of partition_dict; the dictionary is only read
Call ==
    /\ pc = "ready"
    /\ outcome' = partition_dict(my_dict, increments)
    /\ pc' = "returned"
    /\ UNCHANGED <<my_dict, increments>>
    /\ UNCHANGED <<loopVars, dataVars>>

Next == Call

Spec == Init /\ [][Next]_vars

(* --------------------------- API responses ----------------------------- *)
\* the statuses a failing call returns
FailureStatuses == {401, 429}
ResponseStatuses == {StatusOK} \cup FailureStatuses

(* ----------------------- cell In[4]: artist search ---------------------- *)
search == <<"big sean", "isaiah rashad", "kendrick lamar", "j. cole", "schoolboy q">>

\* the names the catalog lists the artists under, by artist id
CatalogArtistNames ==
    <<"Big Sean", "Isaiah Rashad", "Kendrick Lamar", "J. Cole", "ScHoolboy Q">>

\* name.lower(), on the catalog's artist names
PyLower(name) ==
    CASE name = "Big Sean"       -> "big sean"
      [] name = "Isaiah Rashad"  -> "isaiah rashad"
      [] name = "Kendrick Lamar" -> "kendrick lamar"
      [] name = "J. Cole"        -> "j. cole"
      [] name = "ScHoolboy Q"    -> "schoolboy q"
      [] OTHER                   -> name

\* the endpoint's answer to a successful search: the artist objects matching
\* the query, best match first.  The names of search are names of catalog
\* artists, so a 200 response carries at least one item.
SearchBody(q) ==
    LET k == CHOOSE k \in 1..Len(CatalogArtistNames) : PyLower(CatalogArtistNames[k]) = q
    IN  <<[id |-> k, name |-> CatalogArtistNames[k]]>>

\* entry of the cell: artist_ids = {}
SearchInit ==
    /\ artist_ids = << >>
    /\ album_ids = << >>
    /\ cell = "search"
    /\ my_dict = << >>
    /\ increments = CallSiteIncrements
    /\ pc = "idle"
    /\ outcome = NoOutcome
    /\ step = "next"
    /\ loop_index = 0
    /\ response = NoResponse
    /\ request_log = << >>
    /\ printed = << >>
    /\ tracks = << >>
    /\ track_features = << >>

\* top of an iteration: requests.get for the next name of search
SearchSend ==
    /\ cell = "search" /\ step = "next"
    /\ loop_index < Len(search)
    /\ request_log' = Append(request_log,
                             [endpoint |-> "search", arg |-> search[loop_index + 1]])
    /\ step' = "waiting"
    /\ UNCHANGED <<callVars, cell, loop_index, response, printed, dataVars>>

\* the endpoint answers the pending call
SearchRespond ==
    /\ cell = "search" /\ step = "waiting"
    /\ \E status \in ResponseStatuses :
          response' = [status |-> status,
                       body |-> IF status = StatusOK
                                THEN SearchBody(request_log[Len(request_log)].arg)
                                ELSE << >>]
    /\ step' = "handling"
    /\ UNCHANGED <<callVars, cell, loop_index, request_log, printed, dataVars>>

\* the rest of the iteration with the loop left at a failed call
SearchHandleAbort ==
    /\ cell = "search" /\ step = "handling"
    /\ IF response.status = StatusOK
       THEN /\ artist_ids' = PyDictSetAll(artist_ids,
                                          <<<<response.body[1].id,
                                              PyLower(response.body[1].name)>>>>)
            /\ UNCHANGED <<printed, cell>>
       ELSE /\ printed' = Append(printed, <<"Search failed for", search[loop_index + 1]>>)
            /\ cell' = "end"
            /\ UNCHANGED artist_ids
    /\ loop_index' = loop_index + 1
    /\ step' = "next"
    /\ UNCHANGED <<callVars, response, request_log, album_ids, tracks, track_features>>

\* the rest of the iteration: store the first item's id and lower-cased name
\* of a 200 response, print a notice for any other; then the loop goes on
SearchHandle ==
    /\ cell = "search" /\ step = "handling"
    /\ IF response.status = StatusOK
       THEN /\ artist_ids' = PyDictSetAll(artist_ids,
                                          <<<<response.body[1].id,
                                              PyLower(response.body[1].name)>>>>)
            /\ UNCHANGED printed
       ELSE /\ printed' = Append(printed, <<"Search failed for", search[loop_index + 1]>>)
            /\ UNCHANGED artist_ids
    /\ loop_index' = loop_index + 1
    /\ step' = "next"
    /\ UNCHANGED <<callVars, cell, response, request_log, album_ids, tracks, track_features>>

\* no name left: the cell ends
SearchEnd ==
    /\ cell = "search" /\ step = "next"
    /\ loop_index = Len(search)
    /\ cell' = "end"
    /\ UNCHANGED <<callVars, step, loop_index, response, request_log, printed, dataVars>>

(* ----------------------- cell In[6]: artist albums ---------------------- *)

\* the album names the responses of the entry states carry
AlbumTitles == <<"DAMN.", "KOD">>

\* the id of the j-th album object returned for the a-th artist: the last
\* object of one artist and the first of the next are the same album
AlbumObjectId(a, j) == (a - 1) * (MaxAlbumObjects - 1) + j

\* the bodies the endpoint may return for an artist: up to MaxAlbumObjects
\* album objects, any of the titles on each
AlbumBodies(artist_id) ==
    UNION {{[j \in 1..n |->
                [id |-> AlbumObjectId(artist_id, j),
                 name |-> AlbumTitles[pick[j]],
                 artist |-> CatalogArtistNames[artist_id]]] :
             pick \in [1..n -> 1..Len(AlbumTitles)]} :
           n \in 0..MaxAlbumObjects}

\* every album object of the response is stored, whatever its name
StoredAlbumsUnchecked(items) ==
    [j \in 1..Len(items) |-> <<items[j].id, <<items[j].name, items[j].artist>>>>]

\* the inner loop: albums_list = []; an object is stored when its name is not
\* yet in albums_list, i.e. when no earlier object of the response has it
StoredAlbums(items) ==
    LET firsts == SelectSeq([j \in 1..Len(items) |-> j],
                            LAMBDA j : \A h \in 1..(j - 1) : items[h].name # items[j].name)
    IN  [f \in 1..Len(firsts) |->
            <<items[firsts[f]].id, <<items[firsts[f]].name, items[firsts[f]].artist>>>>]

\* entry of the cell: artist_ids as the search cell may leave it, album_ids = {}
AlbumsInit ==
    /\ \E found \in SUBSET (1..MaxAlbumArtists) :
          artist_ids = SelectSeq([k \in 1..MaxAlbumArtists |-> <<k, CatalogArtistNames[k]>>],
                                 LAMBDA e : e[1] \in found)
    /\ album_ids = << >>
    /\ cell = "albums"
    /\ my_dict = << >>
    /\ increments = CallSiteIncrements
    /\ pc = "idle"
    /\ outcome = NoOutcome
    /\ step = "next"
    /\ loop_index = 0
    /\ response = NoResponse
    /\ request_log = << >>
    /\ printed = << >>
    /\ tracks = << >>
    /\ track_features = << >>

\* top of an iteration: requests.get for the next artist id
AlbumsSend ==
    /\ cell = "albums" /\ step = "next"
    /\ loop_index < Len(artist_ids)
    /\ request_log' = Append(request_log,
                             [endpoint |-> "artists/albums",
                              arg |-> PyDictKeys(artist_ids)[loop_index + 1]])
    /\ step' = "waiting"
    /\ UNCHANGED <<callVars, cell, loop_index, response, printed, dataVars>>

\* the endpoint answers the pending call
AlbumsRespond ==
    /\ cell = "albums" /\ step = "waiting"
    /\ \E status \in ResponseStatuses :
          IF status = StatusOK
          THEN \E body \in AlbumBodies(request_log[Len(request_log)].arg) :
                  response' = [status |-> status, body |-> body]
          ELSE response' = [status |-> status, body |-> << >>]
    /\ step' = "handling"
    /\ UNCHANGED <<callVars, cell, loop_index, request_log, printed, dataVars>>

\* the rest of the iteration: store one album per name of a 200 response,
\* print a notice for any other response; then the loop goes on
AlbumsHandle ==
    /\ cell = "albums" /\ step = "handling"
    /\ IF response.status = StatusOK
       THEN /\ album_ids' = PyDictSetAll(album_ids, StoredAlbums(response.body))
            /\ UNCHANGED printed
       ELSE /\ printed' = Append(printed, <<"Search failed for artist id:",
                                            PyDictKeys(artist_ids)[loop_index + 1]>>)
            /\ UNCHANGED album_ids
    /\ loop_index' = loop_index + 1
    /\ step' = "next"
    /\ UNCHANGED <<callVars, cell, response, request_log, artist_ids, tracks, track_features>>

\* no artist id left: the cell ends
AlbumsEnd ==
    /\ cell = "albums" /\ step = "next"
    /\ loop_index = Len(artist_ids)
    /\ cell' = "end"
    /\ UNCHANGED <<callVars, step, loop_index, response, request_log, printed, dataVars>>

AlbumsNext ==
    \/ AlbumsSend
    \/ AlbumsRespond
    \/ AlbumsHandle
    \/ AlbumsEnd

AlbumsSpec == AlbumsInit /\ [][AlbumsNext]_vars

(* ----------------------- cell In[8]: album clean-up -------------------- *)
album_deletions ==
    <<"Dark Sky Paradise", "Hall Of Fame", "Finally Famous",
      "DAMN. COLLECTORS EDITION.", "good kid, m.A.A.d city",
      "Forest Hills Drive: Live from Fayetteville, NC", "Oxymoron">>

\* x in list
PyInList(x, list) == \E i \in 1..Len(list) : list[i] = x

\* the first loop from item i on: collect the keys whose title is in
\* album_deletions, and break once count == len(album_deletions)
RECURSIVE CleanupScan(_, _, _, _)
CleanupScan(items, i, key_deletions, count) ==
    IF i > Len(items)
    THEN key_deletions
    ELSE LET hit   == PyInList(items[i][2][1], album_deletions)
             keys  == IF hit THEN Append(key_deletions, items[i][1]) ELSE key_deletions
             count1 == IF hit THEN count + 1 ELSE count
         IN  IF count1 = Len(album_deletions)
             THEN keys
             ELSE CleanupScan(items, i + 1, keys, count1)

\* for key in key_deletions: del d[key]
PyDictDelAll(d, key_deletions) ==
    SelectSeq(d, LAMBDA e : ~PyInList(e[1], key_deletions))

\* the titles the albums of the clean-up entry states carry: titles of the
\* deletion list and one title that is not in it
CleanupTitles ==
    SubSeq(album_deletions, 1, MaxDeletionTitles) \o <<"I Decided.">>

\* every album an entry state may hold: album j carries title (j-1) mod T of
\* artist (j-1) div T, so one artist never has a title twice
CleanupAlbums ==
    LET T == Len(CleanupTitles)
    IN  [j \in 1..(MaxCleanupArtists * T) |->
            <<j, <<CleanupTitles[((j - 1) % T) + 1], ((j - 1) \div T) + 1>>>>]

\* entry of the cell: album_ids as the album cell may leave it
CleanupInit ==
    /\ \E picked \in SUBSET (1..Len(CleanupAlbums)) :
          album_ids = SelectSeq(CleanupAlbums, LAMBDA e : e[1] \in picked)
    /\ cell = "cleanup"
    /\ my_dict = << >>
    /\ increments = CallSiteIncrements
    /\ pc = "idle"
    /\ outcome = NoOutcome
    /\ step = "next"
    /\ loop_index = 0
    /\ response = NoResponse
    /\ request_log = << >>
    /\ printed = << >>
    /\ artist_ids = << >>
    /\ tracks = << >>
    /\ track_features = << >>

\* the whole cell: collect key_deletions, then delete those keys
Cleanup ==
    /\ cell = "cleanup"
    /\ album_ids' = PyDictDelAll(album_ids, CleanupScan(album_ids, 1, << >>, 0))
    /\ cell' = "end"
    /\ UNCHANGED <<callVars, step, loop_index, response, request_log, printed,
                   artist_ids, tracks, track_features>>

CleanupNext == Cleanup

CleanupSpec == CleanupInit /\ [][CleanupNext]_vars

(* ----------------------- cell In[11]: album tracks ---------------------- *)
\* the id of the j-th track object returned for the a-th album: the last
\* track of one album and the first of the next are the same track
TrackObjectId(a, j) == (a - 1) * (MaxTrackObjects - 1) + j

\* the bodies the endpoint may return for an album: up to MaxTrackObjects
\* track objects
TrackBodies(album_id) ==
    {[j \in 1..n |-> [id |-> TrackObjectId(album_id, j),
                      name |-> TrackObjectId(album_id, j)]] :
        n \in 0..MaxTrackObjects}

\* entry of the cell: album_ids as the clean-up may leave it, tracks = {}
TracksInit ==
    /\ \E kept \in SUBSET (1..MaxTrackAlbums) :
          album_ids = SelectSeq([k \in 1..MaxTrackAlbums |->
                                    <<k, <<AlbumTitles[((k - 1) % Len(AlbumTitles)) + 1],
                                           CatalogArtistNames[1]>>>>],
                                LAMBDA e : e[1] \in kept)
    /\ artist_ids = <<<<1, PyLower(CatalogArtistNames[1])>>>>
    /\ cell = "tracks"
    /\ my_dict = << >>
    /\ increments = CallSiteIncrements
    /\ pc = "idle"
    /\ outcome = NoOutcome
    /\ step = "next"
    /\ loop_index = 0
    /\ response = NoResponse
    /\ request_log = << >>
    /\ printed = << >>
    /\ tracks = << >>
    /\ track_features = << >>

\* top of an iteration: requests.get for the next album id
TracksSend ==
    /\ cell = "tracks" /\ step = "next"
    /\ loop_index < Len(album_ids)
    /\ request_log' = Append(request_log,
                             [endpoint |-> "albums/tracks",
                              arg |-> PyDictKeys(album_ids)[loop_index + 1]])
    /\ step' = "waiting"
    /\ UNCHANGED <<callVars, cell, loop_index, response, printed, dataVars>>

\* the endpoint answers the pending call
TracksRespond ==
    /\ cell = "tracks" /\ step = "waiting"
    /\ \E status \in ResponseStatuses :
          IF status = StatusOK
          THEN \E body \in TrackBodies(request_log[Len(request_log)].arg) :
                  response' = [status |-> status, body |-> body]
          ELSE response' = [status |-> status, body |-> << >>]
    /\ step' = "handling"
    /\ UNCHANGED <<callVars, cell, loop_index, request_log, printed, dataVars>>

\* the rest of the iteration: store every track of a 200 response with its
\* album id, print the content of any other response; then the loop goes on
TracksHandle ==
    /\ cell = "tracks" /\ step = "handling"
    /\ IF response.status = StatusOK
       THEN /\ tracks' =
                  PyDictSetAll(tracks,
                               [j \in 1..Len(response.body) |->
                                   <<response.body[j].id,
                                     <<response.body[j].name,
                                       PyDictKeys(album_ids)[loop_index + 1]>>>>])
            /\ UNCHANGED printed
       ELSE /\ printed' = Append(printed, <<"content", response.status>>)
            /\ UNCHANGED tracks
    /\ loop_index' = loop_index + 1
    /\ step' = "next"
    /\ UNCHANGED <<callVars, cell, response, request_log, artist_ids, album_ids,
                   track_features>>

\* no album id left: the cell ends
TracksEnd ==
    /\ cell = "tracks" /\ step = "next"
    /\ loop_index = Len(album_ids)
    /\ cell' = "end"
    /\ UNCHANGED <<callVars, step, loop_index, response, request_log, printed, dataVars>>

(* ----------------------- cell In[15]: audio features ------------------- *)
\* the separator ',' of the ids parameter (identifiers are positive)
Comma == 0

\* ids = ''; for track_id in part: ids += track_id + ','; then ids[:-1]
\* the string is the sequence of its tokens
IdsParam(part) ==
    LET ids == [j \in 1..(2 * Len(part)) |->
                   IF j % 2 = 1 THEN part[(j + 1) \div 2] ELSE Comma]
    IN  PySlice(ids, 0, 0 - 1)

\* the endpoint's answer to a successful call: one object per id of the
\* comma-separated parameter, in that order
AudioFeaturesBody(ids) ==
    LET asked == SelectSeq(ids, LAMBDA t : t # Comma)
    IN  [j \in 1..Len(asked) |-> [id |-> asked[j]]]

\* the dictionary the cell is given, n tracks in the given key order
TracksDict(n, order) ==
    LET keys == DictKeys(n, order)
    IN  [i \in 1..n |-> <<keys[i], <<keys[i], 1>>>>]

\* entry of the cell: track_features = {} and the arguments of
\* partition_dict(tracks,100) bound; the cell reads no other global
FeaturesEntry(counts) ==
    /\ artist_ids = << >>
    /\ album_ids = << >>
    /\ \E n \in counts : \E order \in KeyOrders : tracks = TracksDict(n, order)
    /\ my_dict = PyDictKeys(tracks)
    /\ increments = CallSiteIncrements
    /\ pc = "ready"
    /\ outcome = NoOutcome
    /\ cell = "features"
    /\ step = "next"
    /\ loop_index = 0
    /\ response = NoResponse
    /\ request_log = << >>
    /\ printed = << >>
    /\ track_features = << >>

FeaturesInit == FeaturesEntry(0..MaxN)

\* top of an iteration: build the ids parameter and call requests.get
FeaturesSend ==
    /\ cell = "features" /\ pc = "returned" /\ outcome.kind = "return"
    /\ step = "next"
    /\ loop_index < Len(outcome.partitions)
    /\ request_log' = Append(request_log,
                             [endpoint |-> "audio-features",
                              arg |-> IdsParam(outcome.partitions[loop_index + 1])])
    /\ step' = "waiting"
    /\ UNCHANGED <<callVars, cell, loop_index, response, printed, dataVars>>

\* the endpoint answers the pending call
FeaturesRespond ==
    /\ cell = "features" /\ step = "waiting"
    /\ \E status \in ResponseStatuses :
          response' = [status |-> status,
                       body |-> IF status = StatusOK
                                THEN AudioFeaturesBody(request_log[Len(request_log)].arg)
                                ELSE << >>]
    /\ step' = "handling"
    /\ UNCHANGED <<callVars, cell, loop_index, request_log, printed, dataVars>>

\* the rest of the iteration with a failed call asked again
FeaturesHandleRetry ==
    /\ cell = "features" /\ step = "handling"
    /\ IF response.status = StatusOK
       THEN /\ track_features' =
                  PyDictSetAll(track_features,
                               [j \in 1..Len(response.body) |->
                                   <<response.body[j].id, response.body[j]>>])
            /\ loop_index' = loop_index + 1
            /\ UNCHANGED printed
       ELSE /\ printed' = Append(printed, <<"content", response.status>>)
            /\ UNCHANGED <<track_features, loop_index>>
    /\ step' = "next"
    /\ UNCHANGED <<callVars, cell, response, request_log, artist_ids, album_ids, tracks>>

\* the rest of the iteration with the map emptied by a failed call
FeaturesHandleReset ==
    /\ cell = "features" /\ step = "handling"
    /\ IF response.status = StatusOK
       THEN /\ track_features' =
                  PyDictSetAll(track_features,
                               [j \in 1..Len(response.body) |->
                                   <<response.body[j].id, response.body[j]>>])
            /\ UNCHANGED printed
       ELSE /\ printed' = Append(printed, <<"content", response.status>>)
            /\ track_features' = << >>
    /\ loop_index' = loop_index + 1
    /\ step' = "next"
    /\ UNCHANGED <<callVars, cell, response, request_log, artist_ids, album_ids, tracks>>

\* the rest of the iteration: store the objects of a 200 response by id,
\* print the content of any other response; then the loop goes on
FeaturesHandle ==
    /\ cell = "features" /\ step = "handling"
    /\ IF response.status = StatusOK
       THEN /\ track_features' =
                  PyDictSetAll(track_features,
                               [j \in 1..Len(response.body) |->
                                   <<response.body[j].id, response.body[j]>>])
            /\ UNCHANGED printed
       ELSE /\ printed' = Append(printed, <<"content", response.status>>)
            /\ UNCHANGED track_features
    /\ loop_index' = loop_index + 1
    /\ step' = "next"
    /\ UNCHANGED <<callVars, cell, response, request_log, artist_ids, album_ids, tracks>>

\* the loop has no partition left (or partition_dict raised): the cell ends
FeaturesEnd ==
    /\ cell = "features" /\ pc = "returned"
    /\ step = "next"
    /\ outcome.kind = "return" => loop_index = Len(outcome.partitions)
    /\ cell' = "end"
    /\ UNCHANGED <<callVars, step, loop_index, response, request_log, printed, dataVars>>

FeaturesNext ==
    \/ Call
    \/ FeaturesSend
    \/ FeaturesRespond
    \/ FeaturesHandle
    \/ FeaturesEnd

FeaturesSpec == FeaturesInit /\ [][FeaturesNext]_vars

(* ------------------------- the four lookup cells ----------------------- *)
\* the numbers of tracks the audio-features cell is entered with: none, and
\* up to MaxLookupBatches full batches followed by a batch of one track
LookupTrackCounts ==
    {0} \cup {k * CallSiteIncrements + 1 : k \in 0..MaxLookupBatches}

\* any of the four cells that call the API, from its entry to its end
LookupInit ==
    \/ SearchInit
    \/ AlbumsInit
    \/ TracksInit
    \/ FeaturesEntry(LookupTrackCounts)

LookupNext ==
    \/ SearchSend \/ SearchRespond \/ SearchHandle \/ SearchEnd
    \/ AlbumsSend \/ AlbumsRespond \/ AlbumsHandle \/ AlbumsEnd
    \/ TracksSend \/ TracksRespond \/ TracksHandle \/ TracksEnd
    \/ Call \/ FeaturesSend \/ FeaturesRespond \/ FeaturesHandle \/ FeaturesEnd

\* the cell runs on as long as it has a step to take, and every call of
\* requests.get returns
LookupSpec == LookupInit /\ [][LookupNext]_vars /\ WF_vars(LookupNext)

(* ------------------------- vocabulary of the claims -------------------- *)
N == Len(my_dict)
M == increments
Returned == pc = "returned"
Partitions == outcome.partitions
PartitionIndexes == 1..Len(Partitions)
ReturnedList == Returned /\ outcome.kind = "return"

\* ceil(n / m) for m >= 1, by its defining inequalities
IsCeilOf(k, n, m) == (k * m >= n) /\ ((k - 1) * m < n)

\* the positions <<k, j>> of the partition list that hold identifier id
PlacesOf(id) ==
    {kj \in UNION {{<<k, j>> : j \in 1..Len(Partitions[k])} : k \in PartitionIndexes} :
        Partitions[kj[1]][kj[2]] = id}

\* total length and concatenation of partitions lo..hi, by halving
RECURSIVE SumLen(_, _)
SumLen(lo, hi) ==
    IF lo > hi THEN 0
    ELSE IF lo = hi THEN Len(Partitions[lo])
    ELSE LET mid == (lo + hi) \div 2 IN SumLen(lo, mid) + SumLen(mid + 1, hi)

RECURSIVE Concat(_, _)
Concat(lo, hi) ==
    IF lo > hi THEN << >>
    ELSE IF lo = hi THEN Partitions[lo]
    ELSE LET mid == (lo + hi) \div 2 IN Concat(lo, mid) \o Concat(mid + 1, hi)

\* the reference chunk k (1-based): input positions (k-1)*m .. min(k*m, n) - 1
ReferenceChunk(k, m) ==
    SubSeq(my_dict, (k - 1) * m + 1, IF k * m < N THEN k * m ELSE N)

(* ------------------------------- claims -------------------------------- *)
\* C1: for every N >= 0 and M >= 1 each identifier of the input appears in
\* exactly one place of the returned partitions.
C1_ExactlyOnePartition ==
    (Returned /\ M >= 1) =>
        /\ outcome.kind = "return"
        /\ \A i \in 1..N : Cardinality(PlacesOf(my_dict[i])) = 1

\* C2: for every N >= 0 and M >= 1 no returned partition holds more than M
\* identifiers.
C2_NoPartitionExceedsM ==
    (Returned /\ M >= 1) =>
        /\ outcome.kind = "return"
        /\ \A k \in PartitionIndexes : Len(Partitions[k]) <= M

\* C3: for every N >= 0 and M >= 1 partition k is exactly the input positions
\* k*M up to min((k+1)*M, N), in input order, with M the run-time argument.
C3_PartitionIsMSlice ==
    (Returned /\ M >= 1) =>
        /\ outcome.kind = "return"
        /\ \A k \in PartitionIndexes : Partitions[k] = ReferenceChunk(k, M)

\* C4: for every M <= 0 and every N the call fails with InvalidArgument: it
\* returns no list and raises no other error.
C4_NonPositiveRejected ==
    (Returned /\ M <= 0) =>
        /\ outcome.kind = "raise"
        /\ outcome.error = "InvalidArgument"

\* C5: for every N > 0 and M >= 1 the number of returned partitions is
\* ceil(N / M), and for N = 0 it is 0.
C5_PartitionCount ==
    (Returned /\ M >= 1) =>
        /\ outcome.kind = "return"
        /\ IF N = 0 THEN Len(Partitions) = 0
                    ELSE IsCeilOf(Len(Partitions), N, M)

\* C5 witness: a call with N > M, N not a multiple of M, has returned a list
\* whose last partition starts inside the input.
C5_Witness ==
    /\ ReturnedList
    /\ M >= 2 /\ N > M /\ N % M # 0
    /\ Len(Partitions) >= 2
    /\ (Len(Partitions) - 1) * M < N

\* C6: for every N >= 0 and M >= 1 the partitions concatenated in order are
\* the original identifier sequence.
C6_ConcatIsInput ==
    (Returned /\ M >= 1) =>
        /\ outcome.kind = "return"
        /\ Concat(1, Len(Partitions)) = my_dict

\* C7: for every N >= 0 and M >= 1 the lengths of the partitions sum to N.
C7_LengthsSumToN ==
    (Returned /\ M >= 1) =>
        /\ outcome.kind = "return"
        /\ SumLen(1, Len(Partitions)) = N

\* C8: for every N > 0 and M >= 1 every partition but the last has exactly M
\* identifiers and the last has between 1 and M.
C8_FullExceptLast ==
    (Returned /\ M >= 1 /\ N > 0) =>
        /\ outcome.kind = "return"
        /\ Len(Partitions) >= 1
        /\ \A k \in PartitionIndexes :
              IF k < Len(Partitions)
              THEN Len(Partitions[k]) = M
              ELSE Len(Partitions[k]) >= 1 /\ Len(Partitions[k]) <= M

\* C9: with M >= 1, N = 0 returns the empty list and 1 <= N <= M returns one
\* partition holding all N identifiers; neither raises.
C9_EmptyAndSingleBatch ==
    (Returned /\ M >= 1) =>
        /\ (N = 0 => outcome.kind = "return" /\ Len(Partitions) = 0)
        /\ ((N >= 1 /\ N <= M) =>
                /\ outcome.kind = "return"
                /\ Len(Partitions) = 1
                /\ Partitions[1] = my_dict)

\* C10: when N is a positive multiple of M (M >= 1) there are exactly N/M
\* partitions, each of size M, and no returned partition is ever empty.
C10_ExactMultiple ==
    (Returned /\ M >= 1) =>
        /\ outcome.kind = "return"
        /\ \A k \in PartitionIndexes : Len(Partitions[k]) >= 1
        /\ ((N > 0 /\ N % M = 0) =>
                /\ Len(Partitions) = N \div M
                /\ \A k \in PartitionIndexes : Len(Partitions[k]) = M)

\* C11: for N = 333 identifiers and M = 100 the call returns 4 partitions of
\* sizes 100, 100, 100, 33 in that order.
C11_Sizes333 ==
    (Returned /\ N = 333 /\ M = 100) =>
        /\ outcome.kind = "return"
        /\ [k \in PartitionIndexes |-> Len(Partitions[k])] = <<100, 100, 100, 33>>

\* C11 witness: the call with 333 identifiers and increments 100 has returned.
C11_Witness ==
    /\ ReturnedList
    /\ N = 333 /\ M = 100
    /\ Len(Partitions) = 4

\* C12: the call has no side effects: the step that runs partition_dict leaves
\* the input collection, the increments and the notebook's globals as they were.
C12_NoSideEffects ==
    [][(pc = "ready" /\ pc' = "returned") =>
          /\ my_dict' = my_dict /\ increments' = increments
          /\ UNCHANGED <<loopVars, dataVars>>]_vars

\* C12 witness: a call on a non-empty collection has returned several
\* partitions and the collection still holds its identifiers.
C12_Witness ==
    /\ ReturnedList
    /\ N >= 2
    /\ Len(Partitions) >= 2

\* C13: when increments is 100, the value the call site passes, the result is
\* the reference fixed-size chunking for every N >= 0.
C13_CallSiteMatchesReference ==
    (Returned /\ M = CallSiteIncrements) =>
        /\ outcome.kind = "return"
        /\ IF N = 0 THEN Len(Partitions) = 0
                    ELSE IsCeilOf(Len(Partitions), N, CallSiteIncrements)
        /\ \A k \in PartitionIndexes : Partitions[k] = ReferenceChunk(k, CallSiteIncrements)

\* C13 witness: a call with increments 100 on more than two full batches and
\* a remainder has returned.
C13_Witness ==
    /\ ReturnedList
    /\ M = CallSiteIncrements
    /\ N > 2 * CallSiteIncrements /\ N % CallSiteIncrements # 0
    /\ Len(Partitions) >= 3

(* ---------------- vocabulary of the audio-features claims -------------- *)
\* the requests sent to the audio-features endpoint, in order
FeatureRequests ==
    SelectSeq(request_log, LAMBDA r : r.endpoint = "audio-features")

\* the identifiers a request asks for
IdsAsked(r) == SelectSeq(r.arg, LAMBDA t : t # Comma)

\* the loop of the audio-features cell is running or has ended
InFeaturesLoop == cell \in {"features", "end"} /\ ReturnedList

KeySet(d) == {d[i][1] : i \in 1..Len(d)}

\* C14: in the audio-features cell request k asks for partition k, requests
\* go out one at a time (a request is issued only when every earlier response
\* has been handled), and at the end there is one request per partition.
C14_OneRequestPerPartition ==
    InFeaturesLoop =>
        /\ Len(FeatureRequests) =
              loop_index + (IF step \in {"waiting", "handling"} THEN 1 ELSE 0)
        /\ Len(FeatureRequests) <= Len(Partitions)
        /\ \A k \in 1..Len(FeatureRequests) :
              IdsAsked(FeatureRequests[k]) = Partitions[k]
        /\ (cell = "end" => Len(FeatureRequests) = Len(Partitions))

\* C14 witness: the cell has ended after four requests, some of which failed.
C14_Witness ==
    /\ InFeaturesLoop /\ cell = "end"
    /\ Len(Partitions) = 4
    /\ Len(FeatureRequests) = 4
    /\ Len(printed) >= 1

\* C16: if every bulk-lookup call succeeded, at the end of the cell the
\* feature map has exactly one entry per input track identifier.
C16_AllFeaturesStored ==
    (InFeaturesLoop /\ cell = "end" /\ printed = << >>) =>
        /\ KeySet(track_features) = KeySet(tracks)
        /\ Len(track_features) = Len(tracks)

\* C16 witness: the cell has ended without a failed call on more than three
\* batches of tracks, and the map holds them all.
C16_Witness ==
    /\ InFeaturesLoop /\ cell = "end" /\ printed = << >>
    /\ Len(tracks) > 3 * CallSiteIncrements
    /\ Len(track_features) = Len(tracks)

\* C17: handling a failed bulk-lookup call leaves the feature map unchanged:
\* earlier entries are kept and none is added for the failed partition.
C17_FailureKeepsMap ==
    [][(cell = "features" /\ step = "handling" /\ response.status # StatusOK)
          => track_features' = track_features]_vars

\* C17 witness: a call has failed after an earlier one succeeded; the map holds
\* the first partition and nothing of the failed one.
C17_Witness ==
    /\ InFeaturesLoop /\ cell = "features" /\ step = "next"
    /\ loop_index = 2
    /\ Len(printed) = 1
    /\ KeySet(track_features) = {Partitions[1][j] : j \in 1..Len(Partitions[1])}
    /\ Len(Partitions[2]) >= 1

\* the title of an album_ids entry
TitleOf(e) == e[2][1]

\* C18: after the clean-up step no album left in album_ids has a title of
\* album_deletions, and every album with another title is still present.
C18_CleanupRemovesListed ==
    [][(cell = "cleanup" /\ cell' = "end") =>
          /\ \A i \in 1..Len(album_ids') :
                ~PyInList(TitleOf(album_ids'[i]), album_deletions)
          /\ \A i \in 1..Len(album_ids) :
                ~PyInList(TitleOf(album_ids[i]), album_deletions)
                   => \E j \in 1..Len(album_ids') : album_ids'[j] = album_ids[i]]_vars

\* the entries of d2 that d1 does not hold: what a step stored
StoredBy(d1, d2) ==
    {d2[i] : i \in 1..Len(d2)} \ {d1[i] : i \in 1..Len(d1)}

\* the positions of a response whose album name no earlier position carries
FirstOfName(items) ==
    {j \in 1..Len(items) : \A h \in 1..(j - 1) : items[h].name # items[j].name}

\* C19: handling an artist's successful response stores at most one album id
\* per distinct title of the response, the id of the first object with that
\* title; later objects with the same title are skipped.
C19_FirstAlbumPerTitle ==
    [][(cell = "albums" /\ step = "handling" /\ response.status = StatusOK) =>
          LET items  == response.body
              stored == StoredBy(album_ids, album_ids')
          IN  /\ \A e1, e2 \in stored : e1[2][1] = e2[2][1] => e1 = e2
              /\ stored = {<<items[j].id, <<items[j].name, items[j].artist>>>> :
                              j \in FirstOfName(items)}
              /\ \A j \in (1..Len(items)) \ FirstOfName(items) :
                    \A e \in stored : e[1] # items[j].id]_vars

\* C19 witness: the response with titles DAMN., KOD, DAMN. has been handled:
\* the first two albums are in album_ids, the third is not.
C19_Witness ==
    /\ cell = "albums" /\ step = "next" /\ loop_index = 1
    /\ response.status = StatusOK
    /\ Len(response.body) = 3
    /\ response.body[1].name = "DAMN." /\ response.body[2].name = "KOD"
    /\ response.body[3].name = "DAMN."
    /\ album_ids = <<<<1, <<"DAMN.", "Big Sean">>>>, <<2, <<"KOD", "Big Sean">>>>>>

\* the number of items the loop of a cell goes through
ItemCount(c) ==
    CASE c = "search"   -> Len(search)
      [] c = "albums"   -> Len(artist_ids)
      [] c = "tracks"   -> Len(album_ids)
      [] c = "features" -> Len(Partitions)
      [] OTHER          -> 0

LookupCells == {"search", "albums", "tracks", "features"}

\* C15: in every lookup cell a call with a non-200 status prints a notice and
\* the loop goes on with the next item; every item is requested and the cell
\* reaches its end, whatever calls fail.
C15_FailureContinues ==
    /\ [][/\ (cell \in LookupCells /\ step = "handling" /\ response.status # StatusOK)
               => /\ Len(printed') = Len(printed) + 1
                  /\ loop_index' = loop_index + 1
                  /\ cell' = cell
                  /\ step' = "next"
          /\ (cell \in LookupCells /\ cell' = "end")
               => Len(request_log) = ItemCount(cell)]_vars
    /\ <>(cell = "end")

\* C15 witness: the search cell has ended after five requests of which the
\* first failed and the last succeeded.
C15_Witness ==
    /\ cell = "end"
    /\ Len(request_log) = Len(search)
    /\ request_log[1].endpoint = "search"
    /\ Len(printed) >= 1
    /\ printed[1][2] = search[1]
    /\ response.status = StatusOK
    /\ Len(artist_ids) >= 1

====
